---- MODULE Spec2Model ----
(***************************************************************************)
(* Front-run strategy evaluation protocol.                                 *)
(*                                                                         *)
(* One strategy instance (aggressive, predictive, volatility or advanced)  *)
(* is constructed from a configuration mapping and then evaluates target   *)
(* transactions through its coroutine `execute`.  The collaborators        *)
(* (validator, signal fetchers, score reducer, front-run executor) are     *)
(* injected callbacks; each may return a value or raise.  The model has    *)
(* one action per stretch of `execute` between two suspension points.      *)
(*                                                                         *)
(* Numbers: prices are integers chosen so that the percentage derivation   *)
(* is exact; the minimum value is in milli-ETH (0.01 ETH = 10).            *)
(* The target transaction always carries the field `to` (data model of     *)
(* the specification), so the subscript target_tx["to"] never raises.      *)
(***************************************************************************)
EXTENDS Integers, Sequences, FiniteSets, TLC

\* ---------------------------------------------------------------------
\* Python values
\* ---------------------------------------------------------------------

\* Python's None and a present value; every optional value is wrapped.
None == <<>>
Some(v) == <<v>>
Get(o) == o[1]

\* dict.get(key, default)
DictGet(d, key, default) == IF key \in DOMAIN d THEN d[key] ELSE default

\* ---------------------------------------------------------------------
\* Bounds and input domains
\* ---------------------------------------------------------------------

\* longest historical price series a fetcher returns
MaxHistLen == 2

HistPriceValues == {9, 10}

HistSeries == UNION {[1..n -> HistPriceValues] : n \in 0..MaxHistLen}

Transactions ==
    { [to |-> "0xRouter", value |-> 10],
      [to |-> "0xPool", value |-> 20] }

Tokens == {"MOCK_TOKEN", "WETH"}

EmptyDict == [k \in {} |-> TRUE]

\* market-conditions mappings a collaborator may return
MarketConditionsMaps ==
    { EmptyDict,
      [bullish_trend |-> TRUE, high_volatility |-> TRUE, low_liquidity |-> FALSE],
      [bullish_trend |-> FALSE, low_liquidity |-> TRUE] }

\* what each fetcher may return on success (None included)
PredictedPrices == {None, Some(11)}
CurrentPrices == {None, Some(0), Some(10)}
MarketConditionsResults == {None} \cup {Some(m) : m \in MarketConditionsMaps}
HistoricalResults == {None} \cup {Some(h) : h \in HistSeries}
VolumeResults == {None, Some(1000000)}
PriceChange24hResults == {None, Some(5)}

\* scores a reducer may return (0-100 scale, around every threshold in use)
Scores == {59, 60, 69, 70, 71, 74, 75, 76, 80}

\* market-conditions mapping returned by the risk reducer
ReducerMarketConditions == {EmptyDict, [bullish_trend |-> TRUE]}

\* configuration mappings handed to the constructor
Configs ==
    { EmptyDict,
      [AGGRESSIVE_FRONT_RUN_MIN_VALUE_ETH |-> 5,
       AGGRESSIVE_FRONT_RUN_RISK_SCORE_THRESHOLD |-> 75,
       FRONT_RUN_OPPORTUNITY_SCORE_THRESHOLD |-> 65,
       VOLATILITY_FRONT_RUN_SCORE_THRESHOLD |-> 80,
       ADVANCED_FRONT_RUN_RISK_SCORE_THRESHOLD |-> 70],
      [AGGRESSIVE_FRONT_RUN_RISK_SCORE_THRESHOLD |-> 76,
       VOLATILITY_FRONT_RUN_SCORE_THRESHOLD |-> 71],
      [ADVANCED_FRONT_RUN_RISK_SCORE_THRESHOLD |-> 74,
       FRONT_RUN_OPPORTUNITY_SCORE_THRESHOLD |-> 69] }

Strategies == {"aggressive", "predictive", "volatility", "advanced"}

\* ---------------------------------------------------------------------
\* Collaborators
\* ---------------------------------------------------------------------

AggressiveFetchers == {"get_price_change_24h"}
PredictiveFetchers == {"predict_price_movement", "get_real_time_price",
                       "check_market_conditions", "get_token_price_data"}
VolatilityFetchers == {"check_market_conditions", "get_real_time_price",
                       "get_token_price_data"}
AdvancedFetchers == {"predict_price_movement", "check_market_conditions",
                     "get_real_time_price", "get_token_volume"}

Fetchers == AggressiveFetchers \cup PredictiveFetchers
                \cup VolatilityFetchers \cup AdvancedFetchers

Collaborators == Fetchers \cup {"validate_transaction", "calculate_score", "front_run"}

\* the values a fetcher may return
FetchResults(f) ==
    CASE f = "predict_price_movement" -> PredictedPrices
      [] f = "get_real_time_price" -> CurrentPrices
      [] f = "check_market_conditions" -> MarketConditionsResults
      [] f = "get_token_price_data" -> HistoricalResults
      [] f = "get_token_volume" -> VolumeResults
      [] f = "get_price_change_24h" -> PriceChange24hResults

VARIABLES
    strategy,          \* which class the instance is
    config,            \* self.config
    min_value_eth,     \* self.min_value_eth (aggressive only, else None)
    threshold,         \* self.risk_score_threshold / opportunity_score_threshold / volatility_score_threshold
    target_tx,         \* argument of the running execute call (None when idle)
    pc,                \* suspension point of the evaluation
    valid,             \* validator outcome: "unset" | "true" | "false" | "raised"
    token_symbol,      \* token symbol returned by the validator
    validate_args,     \* arguments the validator was called with
    fetch,             \* per fetcher: status, value and argument
    market_conditions, \* local variable market_conditions
    readings,          \* locals is_bullish, is_volatile, has_liquidity (advanced)
    reducer_args,      \* keyword arguments the reducer was called with
    score,             \* score returned by the reducer
    front_run_arg,     \* transaction handed to the executor
    front_run_ret,     \* what the executor returned
    calls,             \* number of invocations of each collaborator in this evaluation
    result,            \* outcome of execute: "pending" | "True" | "False" | "exception"
    path,              \* protocol states this evaluation went through
    other              \* locals of a second evaluation of the instance, suspended at an await

instance_vars == <<strategy, config, min_value_eth, threshold>>
eval_vars == <<target_tx, pc, valid, token_symbol, validate_args, fetch,
               market_conditions, readings, reducer_args, score, front_run_arg,
               front_run_ret, calls, result, path>>
vars == <<strategy, config, min_value_eth, threshold, target_tx, pc, valid,
          token_symbol, validate_args, fetch, market_conditions, readings,
          reducer_args, score, front_run_arg, front_run_ret, calls, result, path,
          other>>

\* ---------------------------------------------------------------------
\* Construction
\* ---------------------------------------------------------------------

AggressiveMinValueEth(cfg) == DictGet(cfg, "AGGRESSIVE_FRONT_RUN_MIN_VALUE_ETH", 10)
\* the aggressive threshold read under the advanced strategy's key
AggressiveThreshold_AdvancedKey(cfg) ==
    DictGet(cfg, "ADVANCED_FRONT_RUN_RISK_SCORE_THRESHOLD", 70)

AggressiveThreshold(cfg) == DictGet(cfg, "AGGRESSIVE_FRONT_RUN_RISK_SCORE_THRESHOLD", 70)
PredictiveThreshold(cfg) == DictGet(cfg, "FRONT_RUN_OPPORTUNITY_SCORE_THRESHOLD", 60)
VolatilityThreshold(cfg) == DictGet(cfg, "VOLATILITY_FRONT_RUN_SCORE_THRESHOLD", 75)
AdvancedThreshold(cfg) == DictGet(cfg, "ADVANCED_FRONT_RUN_RISK_SCORE_THRESHOLD", 70)

IdleFetch == [f \in Fetchers |-> [st |-> "idle", val |-> None, arg |-> ""]]
NoCalls == [c \in Collaborators |-> 0]

\* locals of an evaluation that has not started
FreshEvaluation ==
    /\ target_tx = None
    /\ pc = "idle"
    /\ valid = "unset"
    /\ token_symbol = ""
    /\ validate_args = None
    /\ fetch = IdleFetch
    /\ market_conditions = None
    /\ readings = None
    /\ reducer_args = None
    /\ score = None
    /\ front_run_arg = None
    /\ front_run_ret = "unset"
    /\ calls = NoCalls
    /\ result = "pending"
    /\ path = <<>>

\* the locals of the running evaluation, as one record
Locals ==
    [target_tx |-> target_tx, pc |-> pc, valid |-> valid,
     token_symbol |-> token_symbol, validate_args |-> validate_args,
     fetch |-> fetch, market_conditions |-> market_conditions,
     readings |-> readings, reducer_args |-> reducer_args, score |-> score,
     front_run_arg |-> front_run_arg, front_run_ret |-> front_run_ret,
     calls |-> calls, result |-> result, path |-> path]

\* the locals of an evaluation that has not started
FreshLocals ==
    [target_tx |-> None, pc |-> "idle", valid |-> "unset",
     token_symbol |-> "", validate_args |-> None,
     fetch |-> IdleFetch, market_conditions |-> None,
     readings |-> None, reducer_args |-> None, score |-> None,
     front_run_arg |-> None, front_run_ret |-> "unset",
     calls |-> NoCalls, result |-> "pending", path |-> <<>>]

Init ==
    /\ other = FreshLocals
    /\ strategy \in Strategies
    /\ config \in Configs
    /\ min_value_eth = IF strategy = "aggressive"
                         THEN Some(AggressiveMinValueEth(config)) ELSE None
    /\ threshold = CASE strategy = "aggressive" -> AggressiveThreshold(config)
                     [] strategy = "predictive" -> PredictiveThreshold(config)
                     [] strategy = "volatility" -> VolatilityThreshold(config)
                     [] strategy = "advanced" -> AdvancedThreshold(config)
    /\ FreshEvaluation

\* ---------------------------------------------------------------------
\* Steps shared by the four execute coroutines
\* ---------------------------------------------------------------------

\* execute(target_tx) is entered and runs up to the await on the validator
StartEvaluation(tx, min_value) ==
    /\ pc \in {"idle", "done"}
    /\ target_tx' = Some(tx)
    /\ validate_args' = Some([tx |-> tx, intent |-> "front_run", min_value |-> min_value])
    /\ calls' = [NoCalls EXCEPT !["validate_transaction"] = 1]
    /\ pc' = "Validating"
    /\ path' = <<"Validating">>
    /\ valid' = "unset"
    /\ token_symbol' = ""
    /\ fetch' = IdleFetch
    /\ market_conditions' = None
    /\ reducer_args' = None
    /\ score' = None
    /\ front_run_arg' = None
    /\ front_run_ret' = "unset"
    /\ result' = "pending"
    /\ readings' = None
    /\ UNCHANGED <<instance_vars, other>>

\* `return False` / `return <bool>`: the coroutine ends with a value
Return(b, state) ==
    /\ pc' = "done"
    /\ result' = IF b THEN "True" ELSE "False"
    /\ path' = path \o state

\* an exception leaves execute
Raise(state) ==
    /\ pc' = "done"
    /\ result' = "exception"
    /\ path' = path \o state \o <<"Raised">>

\* the coroutines the evaluation starts: each fetcher in fs is called with args[f]
StartFetchers(fs, args) ==
    /\ fetch' = [f \in Fetchers |->
                    IF f \in fs THEN [st |-> "pending", val |-> None, arg |-> args[f]]
                    ELSE fetch[f]]
    /\ calls' = [c \in Collaborators |-> IF c \in fs THEN calls[c] + 1 ELSE calls[c]]

\* the score reducer is called with keyword arguments kw
CallReducer(kw) ==
    /\ reducer_args' = Some(kw)
    /\ calls' = [calls EXCEPT !["calculate_score"] = @ + 1]
    /\ pc' = "Scoring"
    /\ path' = Append(path, "Scoring")

\* the transaction kept on the instance, so that the executor receives the
\* transaction of whichever evaluation is also in flight
CallFrontRun_SharedTx ==
    /\ front_run_arg' = IF other.target_tx # None THEN other.target_tx ELSE target_tx
    /\ calls' = [calls EXCEPT !["front_run"] = @ + 1]
    /\ pc' = "Acting"
    /\ path' = path \o <<"Gating", "Acting">>
    /\ result' = result

\* the executor handed a rewritten copy of the transaction
CallFrontRun_StripsValue ==
    /\ front_run_arg' = Some([Get(target_tx) EXCEPT !.value = 0])
    /\ calls' = [calls EXCEPT !["front_run"] = @ + 1]
    /\ pc' = "Acting"
    /\ path' = path \o <<"Gating", "Acting">>
    /\ result' = result

\* `return await self._front_run(target_tx)` up to the await
CallFrontRun ==
    /\ front_run_arg' = target_tx
    /\ calls' = [calls EXCEPT !["front_run"] = @ + 1]
    /\ pc' = "Acting"
    /\ path' = path \o <<"Gating", "Acting">>
    /\ result' = result

\* the executor returns a boolean, which execute returns, or raises
FrontRunReturns ==
    /\ pc = "Acting"
    /\ \E r \in {"True", "False", "raised"} :
          /\ front_run_ret' = r
          /\ IF r = "raised" THEN Raise(<<>>) ELSE Return(r = "True", <<>>)
    /\ UNCHANGED <<instance_vars, other, readings, target_tx, valid, token_symbol, validate_args,
                   fetch, market_conditions, reducer_args, score, front_run_arg, calls>>

\* FetchComplete with one retry of a fetcher that raised
FetchComplete_RetryOnce(f) ==
    /\ pc = "Gathering"
    /\ fetch[f].st = "pending"
    /\ \/ /\ \E v \in FetchResults(f) :
                fetch' = [fetch EXCEPT ![f].st = "ok", ![f].val = v]
          /\ calls' = calls
       \/ /\ calls[f] >= 2
          /\ fetch' = [fetch EXCEPT ![f].st = "exc"]
          /\ calls' = calls
       \/ /\ calls[f] < 2
          /\ fetch' = fetch
          /\ calls' = [calls EXCEPT ![f] = @ + 1]
    /\ UNCHANGED <<instance_vars, other, readings, target_tx, pc, valid, token_symbol, validate_args,
                   market_conditions, reducer_args, score, front_run_arg,
                   front_run_ret, result, path>>

\* a started fetcher completes: it returns a value (possibly None) or raises
FetchComplete(f) ==
    /\ pc = "Gathering"
    /\ fetch[f].st = "pending"
    /\ \/ \E v \in FetchResults(f) :
             fetch' = [fetch EXCEPT ![f].st = "ok", ![f].val = v]
       \/ fetch' = [fetch EXCEPT ![f].st = "exc"]
    /\ UNCHANGED <<instance_vars, other, readings, target_tx, pc, valid, token_symbol, validate_args,
                   market_conditions, reducer_args, score, front_run_arg,
                   front_run_ret, calls, result, path>>

\* ---------------------------------------------------------------------
\* AggressiveFrontRunStrategy.execute
\* ---------------------------------------------------------------------

AggressiveExecute(tx) ==
    /\ strategy = "aggressive"
    /\ StartEvaluation(tx, min_value_eth)

\* `if risk_score >= self.risk_score_threshold`
AggressiveGate(risk_score) == risk_score >= threshold

\* AggressiveValidated without the `if not valid: return False` exit
AggressiveValidated_NoValidityCheck ==
    /\ strategy = "aggressive"
    /\ pc = "Validating"
    /\ \/ /\ valid' = "raised"
          /\ Raise(<<>>)
          /\ UNCHANGED <<token_symbol, fetch, calls>>
       \/ \E tok \in Tokens, v \in {"true", "false"} :
             /\ valid' = v
             /\ token_symbol' = tok
             /\ StartFetchers(AggressiveFetchers, [f \in AggressiveFetchers |-> tok])
             /\ pc' = "Gathering"
             /\ path' = Append(path, "Gathering")
             /\ result' = result
    /\ UNCHANGED <<instance_vars, other, readings, target_tx, validate_args, market_conditions,
                   reducer_args, score, front_run_arg, front_run_ret>>

\* the validator returns or raises; `if not valid: return False`; then the
\* 24h price change is requested
AggressiveValidated ==
    /\ strategy = "aggressive"
    /\ pc = "Validating"
    /\ \/ /\ valid' = "raised"
          /\ Raise(<<>>)
          /\ UNCHANGED <<token_symbol, fetch, calls>>
       \/ \E tok \in Tokens :
             /\ valid' = "false"
             /\ token_symbol' = tok
             /\ Return(FALSE, <<"Rejected">>)
             /\ UNCHANGED <<fetch, calls>>
       \/ \E tok \in Tokens :
             /\ valid' = "true"
             /\ token_symbol' = tok
             /\ StartFetchers(AggressiveFetchers, [f \in AggressiveFetchers |-> tok])
             /\ pc' = "Gathering"
             /\ path' = Append(path, "Gathering")
             /\ result' = result
    /\ UNCHANGED <<instance_vars, other, readings, target_tx, validate_args, market_conditions,
                   reducer_args, score, front_run_arg, front_run_ret>>

\* the 24h price change arrives (or its fetcher raised, which is not caught);
\* the risk reducer is called
AggressiveFetched ==
    /\ strategy = "aggressive"
    /\ pc = "Gathering"
    /\ fetch["get_price_change_24h"].st \in {"ok", "exc"}
    /\ IF fetch["get_price_change_24h"].st = "exc"
         THEN /\ Raise(<<>>)
              /\ UNCHANGED <<reducer_args, calls>>
         ELSE /\ CallReducer([target_tx |-> Get(target_tx),
                              token_symbol |-> token_symbol,
                              price_change |-> fetch["get_price_change_24h"].val])
              /\ result' = result
    /\ UNCHANGED <<instance_vars, other, readings, target_tx, valid, token_symbol, validate_args,
                   fetch, market_conditions, score, front_run_arg, front_run_ret>>

\* the risk reducer returns (risk_score, market_conditions) or raises; gate
AggressiveScored ==
    /\ strategy = "aggressive"
    /\ pc = "Scoring"
    /\ \/ /\ Raise(<<>>)
          /\ UNCHANGED <<score, market_conditions, front_run_arg, calls>>
       \/ \E risk_score \in Scores, mc \in ReducerMarketConditions :
             /\ score' = Some(risk_score)
             /\ market_conditions' = Some(mc)
             /\ IF AggressiveGate(risk_score)
                  THEN CallFrontRun
                  ELSE /\ Return(FALSE, <<"Gating", "Skipped">>)
                       /\ UNCHANGED <<front_run_arg, calls>>
    /\ UNCHANGED <<instance_vars, other, readings, target_tx, valid, token_symbol, validate_args,
                   fetch, reducer_args, front_run_ret>>

AggressiveFrontRunDone ==
    /\ strategy = "aggressive"
    /\ FrontRunReturns

\* ---------------------------------------------------------------------
\* Derived quantities
\* ---------------------------------------------------------------------

RECURSIVE SumSeq(_)
SumSeq(s) == IF s = <<>> THEN 0 ELSE Head(s) + SumSeq(Tail(s))

RECURSIVE SumSquares(_)
SumSquares(s) == IF s = <<>> THEN 0 ELSE Head(s) * Head(s) + SumSquares(Tail(s))

\* floor of the square root
ISqrt(n) == CHOOSE r \in 0..n : r * r <= n /\ (r + 1) * (r + 1) > n

\* (predicted_price / float(current_price) - 1) * 100, for current # 0;
\* the division raises ZeroDivisionError when current_price is 0
PriceChangePct(predicted, current) == (predicted * 100) \div current - 100

\* the ratio without the `if historical_prices else 0` guard: np.std([]) /
\* np.mean([]) is nan, written -1
VolatilityRatio_NoEmptyGuard(historical_prices) ==
    IF historical_prices = None
      THEN 0
      ELSE IF Get(historical_prices) = <<>>
      THEN -1
      ELSE LET h == Get(historical_prices)
               n == Len(h)
           IN  ISqrt((1000000 * (n * SumSquares(h) - SumSeq(h) * SumSeq(h)))
                        \div (SumSeq(h) * SumSeq(h)))

\* np.std(h) / np.mean(h) if h else 0, in thousandths (rounded down).
\* std/mean = sqrt(n*sum(x^2) - sum(x)^2) / sum(x); None and [] are falsy.
VolatilityRatio(historical_prices) ==
    IF historical_prices = None \/ Get(historical_prices) = <<>>
      THEN 0
      ELSE LET h == Get(historical_prices)
               n == Len(h)
           IN  ISqrt((1000000 * (n * SumSquares(h) - SumSeq(h) * SumSeq(h)))
                        \div (SumSeq(h) * SumSeq(h)))

\* ---------------------------------------------------------------------
\* PredictiveFrontRunStrategy.execute
\* ---------------------------------------------------------------------

PredictiveExecute(tx) ==
    /\ strategy = "predictive"
    /\ StartEvaluation(tx, None)

\* arguments of the four coroutines handed to asyncio.gather
PredictiveFetchArgs(tok) ==
    [f \in PredictiveFetchers |->
        IF f = "check_market_conditions" THEN Get(target_tx).to ELSE tok]

\* gather that resumes only once every awaitable has returned a value
PredictiveGatherDone_OnlyValues == \A f \in PredictiveFetchers : fetch[f].st = "ok"

\* gather without return_exceptions: resumes at the first failure
PredictiveGatherDone_FirstFailure ==
    \/ \A f \in PredictiveFetchers : fetch[f].st \in {"ok", "exc"}
    \/ \E f \in PredictiveFetchers : fetch[f].st = "exc"

\* asyncio.gather(..., return_exceptions=True) resumes when every awaitable is done
PredictiveGatherDone == \A f \in PredictiveFetchers : fetch[f].st \in {"ok", "exc"}

\* any(isinstance(x, Exception) for x in data)
PredictiveGatherFailed == \E f \in PredictiveFetchers : fetch[f].st = "exc"

\* current_price is None or predicted_price is None
PredictiveMissingPrice ==
    \/ fetch["get_real_time_price"].val = None
    \/ fetch["predict_price_movement"].val = None

\* `if opportunity_score >= self.opportunity_score_threshold`
PredictiveGate(opportunity_score) == opportunity_score >= threshold

PredictiveValidated ==
    /\ strategy = "predictive"
    /\ pc = "Validating"
    /\ \/ /\ valid' = "raised"
          /\ Raise(<<>>)
          /\ UNCHANGED <<token_symbol, fetch, calls>>
       \/ \E tok \in Tokens :
             /\ valid' = "false"
             /\ token_symbol' = tok
             /\ Return(FALSE, <<"Rejected">>)
             /\ UNCHANGED <<fetch, calls>>
       \/ \E tok \in Tokens :
             /\ valid' = "true"
             /\ token_symbol' = tok
             /\ StartFetchers(PredictiveFetchers, PredictiveFetchArgs(tok))
             /\ pc' = "Gathering"
             /\ path' = Append(path, "Gathering")
             /\ result' = result
    /\ UNCHANGED <<instance_vars, other, readings, target_tx, validate_args, market_conditions,
                   reducer_args, score, front_run_arg, front_run_ret>>

\* gather resumes: unpack, failure check, missing-price check, then the
\* opportunity reducer is called with the derived quantities
PredictiveGathered ==
    /\ strategy = "predictive"
    /\ pc = "Gathering"
    /\ PredictiveGatherDone
    /\ market_conditions' = fetch["check_market_conditions"].val
    /\ IF PredictiveGatherFailed \/ PredictiveMissingPrice
         THEN /\ Return(FALSE, <<"Rejected">>)
              /\ UNCHANGED <<reducer_args, calls>>
         ELSE IF Get(fetch["get_real_time_price"].val) = 0
         THEN /\ Raise(<<>>)
              /\ UNCHANGED <<reducer_args, calls>>
         ELSE /\ CallReducer(
                    [price_change |-> PriceChangePct(Get(fetch["predict_price_movement"].val),
                                                     Get(fetch["get_real_time_price"].val)),
                     volatility |-> VolatilityRatio(fetch["get_token_price_data"].val),
                     market_conditions |-> fetch["check_market_conditions"].val,
                     current_price |-> fetch["get_real_time_price"].val,
                     historical_prices |-> fetch["get_token_price_data"].val])
              /\ result' = result
    /\ UNCHANGED <<instance_vars, other, readings, target_tx, valid, token_symbol,
                   validate_args, fetch, score, front_run_arg, front_run_ret>>

\* the opportunity reducer returns a score or raises; log; gate
PredictiveScored ==
    /\ strategy = "predictive"
    /\ pc = "Scoring"
    /\ \/ /\ Raise(<<>>)
          /\ UNCHANGED <<score, front_run_arg, calls>>
       \/ \E opportunity_score \in Scores :
             /\ score' = Some(opportunity_score)
             /\ IF PredictiveGate(opportunity_score)
                  THEN CallFrontRun
                  ELSE /\ Return(FALSE, <<"Gating", "Skipped">>)
                       /\ UNCHANGED <<front_run_arg, calls>>
    /\ UNCHANGED <<instance_vars, other, readings, target_tx, valid, token_symbol,
                   validate_args, fetch, market_conditions, reducer_args, front_run_ret>>

PredictiveFrontRunDone ==
    /\ strategy = "predictive"
    /\ FrontRunReturns

\* ---------------------------------------------------------------------
\* VolatilityFrontRunStrategy.execute
\* ---------------------------------------------------------------------

VolatilityExecute(tx) ==
    /\ strategy = "volatility"
    /\ StartEvaluation(tx, None)

VolatilityFetchArgs(tok) ==
    [f \in VolatilityFetchers |->
        IF f = "check_market_conditions" THEN Get(target_tx).to ELSE tok]

VolatilityGatherDone == \A f \in VolatilityFetchers : fetch[f].st \in {"ok", "exc"}

\* all(...) written for any(...)
VolatilityGatherFailed_All == \A f \in VolatilityFetchers : fetch[f].st = "exc"

\* any(isinstance(result, Exception) for result in results)
VolatilityGatherFailed == \E f \in VolatilityFetchers : fetch[f].st = "exc"

\* the log message evaluates min(historical_prices) and max(historical_prices):
\* TypeError on None, ValueError on an empty sequence
VolatilityLogRaises ==
    \/ fetch["get_token_price_data"].val = None
    \/ Get(fetch["get_token_price_data"].val) = <<>>

\* `if volatility_score >= self.volatility_score_threshold`
VolatilityGate(volatility_score) == volatility_score >= threshold

VolatilityValidated ==
    /\ strategy = "volatility"
    /\ pc = "Validating"
    /\ \/ /\ valid' = "raised"
          /\ Raise(<<>>)
          /\ UNCHANGED <<token_symbol, fetch, calls>>
       \/ \E tok \in Tokens :
             /\ valid' = "false"
             /\ token_symbol' = tok
             /\ Return(FALSE, <<"Rejected">>)
             /\ UNCHANGED <<fetch, calls>>
       \/ \E tok \in Tokens :
             /\ valid' = "true"
             /\ token_symbol' = tok
             /\ StartFetchers(VolatilityFetchers, VolatilityFetchArgs(tok))
             /\ pc' = "Gathering"
             /\ path' = Append(path, "Gathering")
             /\ result' = result
    /\ UNCHANGED <<instance_vars, other, readings, target_tx, validate_args, market_conditions,
                   reducer_args, score, front_run_arg, front_run_ret>>

\* gather resumes: unpack, failure check (no missing-value check), then the
\* volatility reducer is called with the raw signals
VolatilityGathered ==
    /\ strategy = "volatility"
    /\ pc = "Gathering"
    /\ VolatilityGatherDone
    /\ market_conditions' = fetch["check_market_conditions"].val
    /\ IF VolatilityGatherFailed
         THEN /\ Return(FALSE, <<"Rejected">>)
              /\ UNCHANGED <<reducer_args, calls>>
         ELSE /\ CallReducer(
                    [historical_prices |-> fetch["get_token_price_data"].val,
                     current_price |-> fetch["get_real_time_price"].val,
                     market_conditions |-> fetch["check_market_conditions"].val])
              /\ result' = result
    /\ UNCHANGED <<instance_vars, other, readings, target_tx, valid, token_symbol,
                   validate_args, fetch, score, front_run_arg, front_run_ret>>

\* the volatility reducer returns a score or raises; log; gate
VolatilityScored ==
    /\ strategy = "volatility"
    /\ pc = "Scoring"
    /\ \/ /\ Raise(<<>>)
          /\ UNCHANGED <<score, front_run_arg, calls>>
       \/ \E volatility_score \in Scores :
             /\ score' = Some(volatility_score)
             /\ IF VolatilityLogRaises
                  THEN /\ Raise(<<>>)
                       /\ UNCHANGED <<front_run_arg, calls>>
                  ELSE IF VolatilityGate(volatility_score)
                  THEN CallFrontRun
                  ELSE /\ Return(FALSE, <<"Gating", "Skipped">>)
                       /\ UNCHANGED <<front_run_arg, calls>>
    /\ UNCHANGED <<instance_vars, other, readings, target_tx, valid, token_symbol,
                   validate_args, fetch, market_conditions, reducer_args, front_run_ret>>

VolatilityFrontRunDone ==
    /\ strategy = "volatility"
    /\ FrontRunReturns

\* ---------------------------------------------------------------------
\* AdvancedFrontRunStrategy.execute
\* ---------------------------------------------------------------------

AdvancedExecute(tx) ==
    /\ strategy = "advanced"
    /\ StartEvaluation(tx, None)

AdvancedFetchArgs(tok) ==
    [f \in AdvancedFetchers |->
        IF f = "check_market_conditions" THEN Get(target_tx).to ELSE tok]

AdvancedGatherDone == \A f \in AdvancedFetchers : fetch[f].st \in {"ok", "exc"}

\* any(isinstance(result, Exception) for result in analysis_results)
AdvancedGatherFailed == \E f \in AdvancedFetchers : fetch[f].st = "exc"

\* current_price is None or predicted_price is None
AdvancedMissingPrice ==
    \/ fetch["get_real_time_price"].val = None
    \/ fetch["predict_price_movement"].val = None

\* the readings with low_liquidity defaulting to False
AdvancedReadings_LiquidDefault(mc) ==
    [is_bullish |-> DictGet(mc, "bullish_trend", FALSE),
     is_volatile |-> DictGet(mc, "high_volatility", FALSE),
     has_liquidity |-> ~DictGet(mc, "low_liquidity", FALSE)]

\* is_bullish, is_volatile, has_liquidity read from the fetched mapping
AdvancedReadings(mc) ==
    [is_bullish |-> DictGet(mc, "bullish_trend", FALSE),
     is_volatile |-> DictGet(mc, "high_volatility", FALSE),
     has_liquidity |-> ~DictGet(mc, "low_liquidity", TRUE)]

\* the log message formats volume with ",.2f": TypeError on None
AdvancedLogRaises == fetch["get_token_volume"].val = None

\* `if risk_score >= self.risk_score_threshold`
AdvancedGate(risk_score) == risk_score >= threshold

AdvancedValidated ==
    /\ strategy = "advanced"
    /\ pc = "Validating"
    /\ \/ /\ valid' = "raised"
          /\ Raise(<<>>)
          /\ UNCHANGED <<token_symbol, fetch, calls>>
       \/ \E tok \in Tokens :
             /\ valid' = "false"
             /\ token_symbol' = tok
             /\ Return(FALSE, <<"Rejected">>)
             /\ UNCHANGED <<fetch, calls>>
       \/ \E tok \in Tokens :
             /\ valid' = "true"
             /\ token_symbol' = tok
             /\ StartFetchers(AdvancedFetchers, AdvancedFetchArgs(tok))
             /\ pc' = "Gathering"
             /\ path' = Append(path, "Gathering")
             /\ result' = result
    /\ UNCHANGED <<instance_vars, other, readings, target_tx, validate_args, market_conditions,
                   reducer_args, score, front_run_arg, front_run_ret>>

\* gather resumes: unpack, failure check, missing-price check, derivations
\* (ZeroDivisionError on a zero price, AttributeError on a None mapping),
\* then the risk reducer is called
AdvancedGathered ==
    /\ strategy = "advanced"
    /\ pc = "Gathering"
    /\ AdvancedGatherDone
    /\ market_conditions' = fetch["check_market_conditions"].val
    /\ IF AdvancedGatherFailed \/ AdvancedMissingPrice
         THEN /\ Return(FALSE, <<"Rejected">>)
              /\ UNCHANGED <<readings, reducer_args, calls>>
         ELSE IF \/ Get(fetch["get_real_time_price"].val) = 0
                 \/ fetch["check_market_conditions"].val = None
         THEN /\ Raise(<<>>)
              /\ UNCHANGED <<readings, reducer_args, calls>>
         ELSE /\ readings' = Some(AdvancedReadings(Get(fetch["check_market_conditions"].val)))
              /\ CallReducer(
                    [target_tx |-> Get(target_tx),
                     token_symbol |-> token_symbol,
                     price_change |-> Some(PriceChangePct(Get(fetch["predict_price_movement"].val),
                                                          Get(fetch["get_real_time_price"].val)))])
              /\ result' = result
    /\ UNCHANGED <<instance_vars, other, target_tx, valid, token_symbol,
                   validate_args, fetch, score, front_run_arg, front_run_ret>>

\* the risk reducer returns (risk_score, market_conditions) or raises; log; gate
AdvancedScored ==
    /\ strategy = "advanced"
    /\ pc = "Scoring"
    /\ \/ /\ Raise(<<>>)
          /\ UNCHANGED <<score, market_conditions, front_run_arg, calls>>
       \/ \E risk_score \in Scores, mc \in ReducerMarketConditions :
             /\ score' = Some(risk_score)
             /\ market_conditions' = Some(mc)
             /\ IF AdvancedLogRaises
                  THEN /\ Raise(<<>>)
                       /\ UNCHANGED <<front_run_arg, calls>>
                  ELSE IF AdvancedGate(risk_score)
                  THEN CallFrontRun
                  ELSE /\ Return(FALSE, <<"Gating", "Skipped">>)
                       /\ UNCHANGED <<front_run_arg, calls>>
    /\ UNCHANGED <<instance_vars, other, readings, target_tx, valid, token_symbol,
                   validate_args, fetch, reducer_args, front_run_ret>>

AdvancedFrontRunDone ==
    /\ strategy = "advanced"
    /\ FrontRunReturns

\* ---------------------------------------------------------------------
\* Specification
\* ---------------------------------------------------------------------

Next ==
    \/ \E tx \in Transactions : AggressiveExecute(tx)
    \/ AggressiveValidated
    \/ AggressiveFetched
    \/ AggressiveScored
    \/ AggressiveFrontRunDone
    \/ \E tx \in Transactions : PredictiveExecute(tx)
    \/ PredictiveValidated
    \/ PredictiveGathered
    \/ PredictiveScored
    \/ PredictiveFrontRunDone
    \/ \E tx \in Transactions : VolatilityExecute(tx)
    \/ VolatilityValidated
    \/ VolatilityGathered
    \/ VolatilityScored
    \/ VolatilityFrontRunDone
    \/ \E tx \in Transactions : AdvancedExecute(tx)
    \/ AdvancedValidated
    \/ AdvancedGathered
    \/ AdvancedScored
    \/ AdvancedFrontRunDone
    \/ \E f \in Fetchers : FetchComplete(f)

Spec == Init /\ [][Next]_vars

\* the event loop suspends the running evaluation at its await and resumes
\* the other evaluation of the same instance
Switch ==
    /\ other' = Locals
    /\ target_tx' = other.target_tx
    /\ pc' = other.pc
    /\ valid' = other.valid
    /\ token_symbol' = other.token_symbol
    /\ validate_args' = other.validate_args
    /\ fetch' = other.fetch
    /\ market_conditions' = other.market_conditions
    /\ readings' = other.readings
    /\ reducer_args' = other.reducer_args
    /\ score' = other.score
    /\ front_run_arg' = other.front_run_arg
    /\ front_run_ret' = other.front_run_ret
    /\ calls' = other.calls
    /\ result' = other.result
    /\ path' = other.path
    /\ UNCHANGED instance_vars

\* collaborator outcomes explored with two evaluations in flight
ConcurrentFetchOutcome(f) ==
    CASE f = "predict_price_movement" ->
            fetch[f].st = "ok" /\ fetch[f].val = Some(11)
      [] f = "get_real_time_price" ->
            fetch[f].st = "exc" \/ fetch[f].val = Some(10)
      [] f = "check_market_conditions" ->
            fetch[f].st = "ok" /\ fetch[f].val \in
                {Some(EmptyDict), Some([bullish_trend |-> FALSE, low_liquidity |-> TRUE])}
      [] f = "get_token_price_data" ->
            fetch[f].st = "ok" /\ fetch[f].val = Some(<<9>>)
      [] f = "get_token_volume" ->
            fetch[f].st = "ok"
      [] f = "get_price_change_24h" ->
            fetch[f].st = "exc" \/ fetch[f].val = Some(5)

ConcurrentScoreOutcome == score = None \/ Get(score) \in {59, 75}

InitConcurrent == Init /\ config = EmptyDict

NextConcurrent ==
    \/ \E tx \in Transactions : AggressiveExecute(tx)
    \/ AggressiveValidated
    \/ AggressiveFetched
    \/ AggressiveScored /\ ConcurrentScoreOutcome'
    \/ AggressiveFrontRunDone
    \/ \E tx \in Transactions : PredictiveExecute(tx)
    \/ PredictiveValidated
    \/ PredictiveGathered
    \/ PredictiveScored /\ ConcurrentScoreOutcome'
    \/ PredictiveFrontRunDone
    \/ \E tx \in Transactions : VolatilityExecute(tx)
    \/ VolatilityValidated
    \/ VolatilityGathered
    \/ VolatilityScored /\ ConcurrentScoreOutcome'
    \/ VolatilityFrontRunDone
    \/ \E tx \in Transactions : AdvancedExecute(tx)
    \/ AdvancedValidated
    \/ AdvancedGathered
    \/ AdvancedScored /\ ConcurrentScoreOutcome'
    \/ AdvancedFrontRunDone
    \/ \E f \in Fetchers : FetchComplete(f) /\ ConcurrentFetchOutcome(f)'
    \/ Switch

\* two evaluations of one instance interleaved at their awaits
SpecConcurrent == InitConcurrent /\ [][NextConcurrent]_vars

\* the steps of a running evaluation: a collaborator returns or raises and
\* the coroutine resumes
Step ==
    \/ AggressiveValidated
    \/ AggressiveFetched
    \/ AggressiveScored
    \/ AggressiveFrontRunDone
    \/ PredictiveValidated
    \/ PredictiveGathered
    \/ PredictiveScored
    \/ PredictiveFrontRunDone
    \/ VolatilityValidated
    \/ VolatilityGathered
    \/ VolatilityScored
    \/ VolatilityFrontRunDone
    \/ AdvancedValidated
    \/ AdvancedGathered
    \/ AdvancedScored
    \/ AdvancedFrontRunDone
    \/ \E f \in Fetchers : FetchComplete(f)

\* every invoked collaborator eventually returns or raises, and the event
\* loop resumes the coroutine that awaits it
SpecFair == Init /\ [][Next]_vars /\ WF_vars(Step)

\* ---------------------------------------------------------------------
\* Properties
\* ---------------------------------------------------------------------

\* the signal fetchers of the instance's strategy
UsedFetchers ==
    CASE strategy = "aggressive" -> AggressiveFetchers
      [] strategy = "predictive" -> PredictiveFetchers
      [] strategy = "volatility" -> VolatilityFetchers
      [] strategy = "advanced" -> AdvancedFetchers

PriceFetchers == {"get_real_time_price", "predict_price_movement"}

\* the reducer was called and raised
ReducerRaised == pc = "done" /\ calls["calculate_score"] > 0 /\ score = None

\* C1: whenever the validator returned is_valid = false, execute has returned
\* False and no fetcher, no reducer and no executor was invoked.
C1_InvalidRejectsWithoutSideEffects ==
    valid = "false" =>
        /\ pc = "done"
        /\ result = "False"
        /\ \A c \in Collaborators \ {"validate_transaction"} : calls[c] = 0

C1_Witness ==
    /\ valid = "false"
    /\ pc = "done"
    /\ result = "False"
    /\ calls["validate_transaction"] = 1

\* C2: when some of the strategy's fetchers raised and the rest succeeded,
\* execute returns False, the reducer is never called and the executor is
\* never invoked, in each of the four strategies.
C2_FetchFailureReturnsFalse ==
    ( /\ pc = "done"
      /\ \A f \in UsedFetchers : fetch[f].st \in {"ok", "exc"}
      /\ \E f \in UsedFetchers : fetch[f].st = "exc" )
    => /\ result = "False"
       /\ calls["calculate_score"] = 0
       /\ calls["front_run"] = 0

\* C3: when validation succeeded, every fetcher succeeded and the reducer's
\* score is >= the threshold, the executor is invoked exactly once with the
\* original transaction and execute returns the executor's boolean.
C3_PassingGateActsOnce ==
    ( /\ pc = "done"
      /\ valid = "true"
      /\ \A f \in UsedFetchers : fetch[f].st = "ok"
      /\ score # None
      /\ Get(score) >= threshold )
    => /\ calls["front_run"] = 1
       /\ front_run_arg = target_tx
       /\ (front_run_ret = "True" => result = "True")
       /\ (front_run_ret = "False" => result = "False")

\* C4: whenever the reducer's score is strictly below the threshold, the
\* executor is never invoked and execute returns False.
C4_BelowThresholdSkips ==
    ( /\ pc = "done"
      /\ score # None
      /\ Get(score) < threshold )
    => /\ calls["front_run"] = 0
       /\ result = "False"

\* C5: the executor has been invoked only if the validator returned valid,
\* every fetcher of the strategy completed without failure and the reducer
\* returned a score >= threshold.
C5_ExecutorOnlyAfterAllChecks ==
    calls["front_run"] > 0 =>
        /\ valid = "true"
        /\ \A f \in UsedFetchers : fetch[f].st = "ok"
        /\ score # None
        /\ Get(score) >= threshold

C5_Witness ==
    /\ pc = "Acting"
    /\ calls["front_run"] = 1
    /\ Get(score) = threshold

\* C6: no exception escapes execute; whichever collaborator fails
\* (validator, fetcher, reducer, executor), execute returns False.
C6_NoExceptionEscapes ==
    /\ result # "exception"
    /\ ( /\ pc = "done"
         /\ \/ valid = "raised"
            \/ \E f \in UsedFetchers : fetch[f].st = "exc"
            \/ ReducerRaised
            \/ front_run_ret = "raised" )
       => result = "False"

\* C7: the reducer is called only when every value the strategy fetched is
\* non-null and no fetch failed.
C7_ReducerOnlyOnFullBundle ==
    calls["calculate_score"] > 0 =>
        \A f \in UsedFetchers : fetch[f].st = "ok" /\ fetch[f].val # None

\* C8: in the predictive, volatility and advanced strategies a price fetch
\* that succeeds with null makes execute return False without calling the
\* reducer or the executor.
C8_NullPriceAborts ==
    ( /\ pc = "done"
      /\ strategy \in {"predictive", "volatility", "advanced"}
      /\ \E f \in UsedFetchers \cap PriceFetchers :
            fetch[f].st = "ok" /\ fetch[f].val = None )
    => /\ result = "False"
       /\ calls["calculate_score"] = 0
       /\ calls["front_run"] = 0

\* the paths of the protocol state machine
ProtocolPaths ==
    { <<"Validating", "Rejected">>,
      <<"Validating", "Gathering", "Rejected">>,
      <<"Validating", "Gathering", "Scoring", "Gating", "Acting">>,
      <<"Validating", "Gathering", "Scoring", "Gating", "Skipped">> }

IsPrefix(s, t) == Len(s) <= Len(t) /\ SubSeq(t, 1, Len(s)) = s

\* C9: every evaluation follows Validating -> Gathering -> Scoring -> Gating
\* -> {Acting | Skipped}, with early exits only from Validating and Gathering
\* to Rejected(false); each call starts at Validating.
C9_ProtocolPath ==
    /\ \E p \in ProtocolPaths : IsPrefix(path, p)
    /\ pc = "done" => path \in ProtocolPaths
    /\ pc # "idle" => path[1] = "Validating"

\* C10: in the predictive, volatility and advanced strategies all fetchers are
\* started before any completes, a failed fetcher leaves the others running,
\* and the failure check and abort decision come only after every fetcher
\* has produced its outcome.
C10_GatherIsBarrier ==
    strategy # "aggressive" =>
        /\ (\E f \in UsedFetchers : fetch[f].st \in {"ok", "exc"})
              => \A g \in UsedFetchers : fetch[g].st # "idle"
        /\ pc = "Gathering"
              => \A f \in UsedFetchers : fetch[f].st \in {"pending", "ok", "exc"}
        /\ (valid = "true" /\ pc \notin {"Validating", "Gathering"})
              => \A f \in UsedFetchers : fetch[f].st \in {"ok", "exc"}

C10_Witness ==
    /\ strategy = "predictive"
    /\ pc = "Gathering"
    /\ fetch["get_token_price_data"].st = "exc"
    /\ fetch["predict_price_movement"].st = "pending"
    /\ fetch["get_real_time_price"].st = "ok"

\* no fetch failed and the current and predicted price are present
PassedGatherChecks ==
    /\ valid = "true"
    /\ \A f \in UsedFetchers : fetch[f].st = "ok"
    /\ \A f \in UsedFetchers \cap PriceFetchers : fetch[f].val # None

\* the evaluation reached the gate
Gated == \E i \in 1..Len(path) : path[i] = "Gating"

\* C12: logging never affects control flow: once the reducer has returned a
\* score, whether the executor is invoked and what execute returns depend
\* only on the score and the threshold; the log step neither aborts the
\* evaluation nor changes its result.
C12_LoggingIsObservational ==
    ( /\ pc = "done"
      /\ PassedGatherChecks
      /\ score # None )
    => /\ Gated
       /\ (calls["front_run"] = 1) <=> (Get(score) >= threshold)
       /\ front_run_ret # "raised" => result \in {"True", "False"}

\* C13: in one evaluation the validator is called exactly once and each
\* fetcher, the reducer and the executor at most once; the token symbol of
\* that validation is the argument of every token-keyed fetch and of the
\* reducer call.
C13_NothingRetried ==
    pc # "idle" =>
        /\ calls["validate_transaction"] = 1
        /\ \A c \in Collaborators : calls[c] <= 1
        /\ \A f \in Fetchers \ UsedFetchers : calls[f] = 0
        /\ \A f \in UsedFetchers \ {"check_market_conditions"} :
              fetch[f].st # "idle" => fetch[f].arg = token_symbol
        /\ (reducer_args # None /\ strategy \in {"aggressive", "advanced"})
              => Get(reducer_args).token_symbol = token_symbol

C13_Witness ==
    /\ pc = "done"
    /\ strategy = "advanced"
    /\ token_symbol = "WETH"
    /\ \A f \in AdvancedFetchers : calls[f] = 1
    /\ calls["calculate_score"] = 1
    /\ calls["front_run"] = 1
    /\ front_run_ret = "False"

\* the readings a mapping gives when absent keys take their defaults
ReadingsWithDefaults(mc) ==
    [is_bullish |-> "bullish_trend" \in DOMAIN mc /\ mc["bullish_trend"],
     is_volatile |-> "high_volatility" \in DOMAIN mc /\ mc["high_volatility"],
     has_liquidity |-> "low_liquidity" \in DOMAIN mc /\ ~mc["low_liquidity"]]

C16_EmptyHistoryGivesZeroVolatility ==
    ( /\ strategy = "predictive"
      /\ pc \notin {"idle", "Validating", "Gathering"}
      /\ PassedGatherChecks
      /\ Get(fetch["get_real_time_price"].val) # 0
      /\ fetch["get_token_price_data"].val = Some(<<>>) )
    => /\ calls["calculate_score"] = 1
       /\ reducer_args # None
       /\ Get(reducer_args).volatility = 0
       /\ (pc = "done" /\ score # None) => Gated

C16_Witness ==
    /\ strategy = "predictive"
    /\ fetch["get_token_price_data"].val = Some(<<>>)
    /\ fetch["get_token_price_data"].st = "ok"
    /\ reducer_args # None
    /\ Get(reducer_args).volatility = 0
    /\ pc = "Acting"

\* C20: in the predictive and advanced strategies every bundle that passes
\* the gather checks reaches the reducer, a current price of 0 included.
C20_CheckedBundleReachesReducer ==
    ( /\ strategy \in {"predictive", "advanced"}
      /\ pc = "done"
      /\ PassedGatherChecks )
    => calls["calculate_score"] = 1

\* config key and default of each strategy's threshold
ThresholdKey ==
    [s \in Strategies |->
        CASE s = "aggressive" -> "AGGRESSIVE_FRONT_RUN_RISK_SCORE_THRESHOLD"
          [] s = "predictive" -> "FRONT_RUN_OPPORTUNITY_SCORE_THRESHOLD"
          [] s = "volatility" -> "VOLATILITY_FRONT_RUN_SCORE_THRESHOLD"
          [] s = "advanced" -> "ADVANCED_FRONT_RUN_RISK_SCORE_THRESHOLD"]

DefaultThreshold ==
    [s \in Strategies |->
        CASE s = "aggressive" -> 70
          [] s = "predictive" -> 60
          [] s = "volatility" -> 75
          [] s = "advanced" -> 70]

\* the threshold the strategy is to use: its own key's value, else its default
ConfiguredThreshold ==
    IF ThresholdKey[strategy] \in DOMAIN config
      THEN config[ThresholdKey[strategy]]
      ELSE DefaultThreshold[strategy]

\* C17: each strategy's threshold is the value under its own config key, or
\* its default (70, 60, 75, 70; aggressive minimum value 0.01 ETH) when the
\* key is missing; the gate uses that value and other strategies' keys have
\* no effect.
C17_ThresholdFromOwnKey ==
    /\ threshold = ConfiguredThreshold
    /\ strategy = "aggressive" =>
          min_value_eth = IF "AGGRESSIVE_FRONT_RUN_MIN_VALUE_ETH" \in DOMAIN config
                            THEN Some(config["AGGRESSIVE_FRONT_RUN_MIN_VALUE_ETH"])
                            ELSE Some(10)
    /\ calls["front_run"] > 0 => Get(score) >= ConfiguredThreshold
    /\ (pc = "done" /\ Gated /\ calls["front_run"] = 0) => Get(score) < ConfiguredThreshold

C17_Witness ==
    /\ strategy = "aggressive"
    /\ DOMAIN config = {"ADVANCED_FRONT_RUN_RISK_SCORE_THRESHOLD",
                        "FRONT_RUN_OPPORTUNITY_SCORE_THRESHOLD"}
    /\ threshold = 70
    /\ pc = "Acting"
    /\ Get(score) = 70

\* C18: if every invoked collaborator eventually returns or fails, every
\* evaluation eventually reaches a terminal outcome; a collaborator failure
\* leads to the end of the evaluation, not to a state that waits forever.
C18_EvaluationTerminates == (pc \notin {"idle", "done"}) ~> (pc = "done")

C18_Witness ==
    /\ pc = "done"
    /\ strategy = "predictive"
    /\ fetch["get_real_time_price"].st = "exc"
    /\ fetch["predict_price_movement"].st = "ok"
    /\ result = "False"

\* C19: an evaluation leaves the instance and its input unchanged: no step
\* changes the threshold, the minimum value or the configuration, the target
\* transaction stays what the caller supplied, and the executor receives
\* that same transaction.
C19_EvaluationLeavesInputsUnchanged ==
    [][ /\ UNCHANGED instance_vars
        /\ pc \notin {"idle", "done"} => target_tx' = target_tx
        /\ target_tx' = Some(Get(validate_args').tx)
        /\ front_run_arg' \in {None, target_tx'} ]_vars

C19_Witness ==
    /\ pc = "done"
    /\ calls["front_run"] = 1
    /\ front_run_arg = target_tx
    /\ target_tx = Some([to |-> "0xPool", value |-> 20])
    /\ result = "True"

\* the reducer call an evaluation with locals e makes from its own values
OwnReducerArgs(e) ==
    CASE strategy = "aggressive" ->
            [target_tx |-> Get(e.target_tx), token_symbol |-> e.token_symbol,
             price_change |-> e.fetch["get_price_change_24h"].val]
      [] strategy = "predictive" ->
            [price_change |-> PriceChangePct(Get(e.fetch["predict_price_movement"].val),
                                             Get(e.fetch["get_real_time_price"].val)),
             volatility |-> VolatilityRatio(e.fetch["get_token_price_data"].val),
             market_conditions |-> e.fetch["check_market_conditions"].val,
             current_price |-> e.fetch["get_real_time_price"].val,
             historical_prices |-> e.fetch["get_token_price_data"].val]
      [] strategy = "volatility" ->
            [historical_prices |-> e.fetch["get_token_price_data"].val,
             current_price |-> e.fetch["get_real_time_price"].val,
             market_conditions |-> e.fetch["check_market_conditions"].val]
      [] strategy = "advanced" ->
            [target_tx |-> Get(e.target_tx), token_symbol |-> e.token_symbol,
             price_change |-> Some(PriceChangePct(Get(e.fetch["predict_price_movement"].val),
                                                  Get(e.fetch["get_real_time_price"].val)))]

\* what execute returns when the evaluation with locals e runs alone and its
\* collaborators answer as they answered e
SoloResult(e) ==
    LET failed == \E f \in UsedFetchers : e.fetch[f].st = "exc"
        missing == \E f \in UsedFetchers \cap PriceFetchers : e.fetch[f].val = None
        log_raises ==
            \/ /\ strategy = "volatility"
               /\ \/ e.fetch["get_token_price_data"].val = None
                  \/ Get(e.fetch["get_token_price_data"].val) = <<>>
            \/ /\ strategy = "advanced"
               /\ e.fetch["get_token_volume"].val = None
    IN  IF e.valid = "raised" THEN "exception"
        ELSE IF e.valid = "false" THEN "False"
        ELSE IF failed THEN (IF strategy = "aggressive" THEN "exception" ELSE "False")
        ELSE IF strategy \in {"predictive", "advanced"} /\ missing THEN "False"
        ELSE IF /\ strategy \in {"predictive", "advanced"}
                /\ Get(e.fetch["get_real_time_price"].val) = 0 THEN "exception"
        ELSE IF /\ strategy = "advanced"
                /\ e.fetch["check_market_conditions"].val = None THEN "exception"
        ELSE IF e.score = None \/ log_raises THEN "exception"
        ELSE IF Get(e.score) < threshold THEN "False"
        ELSE IF e.front_run_ret = "raised" THEN "exception"
        ELSE e.front_run_ret

\* the evaluation with locals e used only its own transaction, token symbol
\* and signal values, and ended as it would have ended alone
Isolated(e) ==
    /\ e.validate_args # None => Get(e.validate_args).tx = Get(e.target_tx)
    /\ \A f \in UsedFetchers :
          e.fetch[f].st # "idle" =>
              e.fetch[f].arg = IF f = "check_market_conditions"
                                 THEN Get(e.target_tx).to ELSE e.token_symbol
    /\ e.reducer_args # None => e.reducer_args = Some(OwnReducerArgs(e))
    /\ e.front_run_arg \in {None, e.target_tx}
    /\ e.pc = "done" => e.result = SoloResult(e)

\* C11: two evaluations of one instance interleaved at their awaits do not
\* interfere: each one's result and the transaction it hands to the executor
\* are those of a run alone, and each uses only its own token symbol and
\* signal values.
C11_ConcurrentEvaluationsIsolated == Isolated(Locals) /\ Isolated(other)

C11_Witness ==
    /\ pc = "Acting"
    /\ other.pc = "done"
    /\ other.result = "False"
    /\ other.calls["calculate_score"] = 1
    /\ other.target_tx # None
    /\ other.target_tx # target_tx
    /\ other.token_symbol # token_symbol
    /\ front_run_arg = target_tx

\* the evaluations with locals d and e differ at most in the fetched
\* market-conditions flags, the fetched volume and the mapping the reducer
\* returned
DifferOnlyInUngatedSignals(d, e) ==
    /\ d.target_tx = e.target_tx
    /\ d.token_symbol = e.token_symbol
    /\ d.valid = "true" /\ e.valid = "true"
    /\ \A f \in UsedFetchers : d.fetch[f].st = "ok" /\ e.fetch[f].st = "ok"
    /\ \A f \in UsedFetchers \ {"check_market_conditions", "get_token_volume"} :
          d.fetch[f].val = e.fetch[f].val
    /\ strategy = "advanced" =>
          /\ d.fetch["check_market_conditions"].val # None
          /\ e.fetch["check_market_conditions"].val # None
    /\ d.score # None /\ d.score = e.score

\* C14: in the aggressive and advanced strategies two evaluations with the
\* same score and threshold that differ only in the fetched market-conditions
\* flags, the fetched volume or the mapping returned by the reducer invoke
\* the executor in the same cases and return the same result.
C14_GateDependsOnlyOnScore ==
    ( /\ strategy \in {"aggressive", "advanced"}
      /\ pc = "done"
      /\ other.pc = "done"
      /\ DifferOnlyInUngatedSignals(Locals, other) )
    => /\ calls["front_run"] = other.calls["front_run"]
       /\ front_run_ret = other.front_run_ret => result = other.result

\* ---------------------------------------------------------------------
\* The demonstration harness: the configuration main() hands to the strategies

\* class MockConfiguration: five attributes set on the class, no __init__
MockConfigurationClassAttrs ==
    [AGGRESSIVE_FRONT_RUN_MIN_VALUE_ETH |-> 5,
     AGGRESSIVE_FRONT_RUN_RISK_SCORE_THRESHOLD |-> 75,
     FRONT_RUN_OPPORTUNITY_SCORE_THRESHOLD |-> 65,
     VOLATILITY_FRONT_RUN_SCORE_THRESHOLD |-> 80,
     ADVANCED_FRONT_RUN_RISK_SCORE_THRESHOLD |-> 70]

\* MockConfiguration(): nothing assigns an attribute on the instance
MockConfigurationInstanceAttrs == EmptyDict

\* obj.__dict__ holds the attributes set on the instance itself; attributes
\* set on its class are not in it
InstanceDict(instance_attrs, class_attrs) == instance_attrs

\* config=config.__dict__ in each constructor call of main()
DemoConfig ==
    InstanceDict(MockConfigurationInstanceAttrs, MockConfigurationClassAttrs)

\* the value MockConfiguration declares under the running strategy's
\* threshold key
DeclaredThreshold ==
    CASE strategy = "aggressive" ->
            MockConfigurationClassAttrs.AGGRESSIVE_FRONT_RUN_RISK_SCORE_THRESHOLD
      [] strategy = "predictive" ->
            MockConfigurationClassAttrs.FRONT_RUN_OPPORTUNITY_SCORE_THRESHOLD
      [] strategy = "volatility" ->
            MockConfigurationClassAttrs.VOLATILITY_FRONT_RUN_SCORE_THRESHOLD
      [] strategy = "advanced" ->
            MockConfigurationClassAttrs.ADVANCED_FRONT_RUN_RISK_SCORE_THRESHOLD

\* C21: a strategy constructed as main() constructs it, from the mapping
\* config.__dict__ of a MockConfiguration instance, has the threshold that
\* MockConfiguration declares for it (aggressive 75, predictive 65,
\* volatility 80, advanced 70), and the aggressive strategy has the declared
\* minimum value 0.005 (5 in thousandths of an ETH), not the built-in
\* defaults.
C21_DemoConfigCarriesDeclaredValues ==
    config = DemoConfig =>
        /\ threshold = DeclaredThreshold
        /\ strategy = "aggressive" =>
              min_value_eth =
                  Some(MockConfigurationClassAttrs.AGGRESSIVE_FRONT_RUN_MIN_VALUE_ETH)

====
